---- MODULE Spec2Model ----
(***************************************************************************)
(* WorkspaceDeleteHandler (debug-nodejs-backend-module.ts, lines 54-186):  *)
(* the command handler that deletes the selected workspace files after a   *)
(* confirmation dialog, closing the affected editors without saving.       *)
(*                                                                         *)
(* A URI is modelled by its path, a sequence of segments (naturals); its   *)
(* string form is what toString builds.  JavaScript runs each handler to   *)
(* its next await, so every action below is one such run.                  *)
(***************************************************************************)
EXTENDS Naturals, Sequences, FiniteSets

VARIABLES
    roots,          \* workspaceService: the workspace root directories
    widgets,        \* shell.widgets: widget id -> widget (or ClosedWidget)
    pc,             \* where execute() stands: idle | confirm | deleting | done
    uris,           \* the argument of the running execute()
    distinctUris,   \* execute()'s const distinctUris
    dialog,         \* the ConfirmDialog that confirm() opened, or NoDialog
    response,       \* what the dialog's open() resolved to, or "none"
    deletes,        \* one entry per delete() call: its fs request and promise
    log,            \* the calls made on the widgets and on the file system
    errors,         \* the number of console.error calls
    unhandled,      \* uris whose closeWithoutSaving() promise was rejected
    result,         \* how execute()'s promise settled: none | resolved | rejected
    gate            \* the last isVisible / isEnabled call and what it returned

vars == <<roots, widgets, pc, uris, distinctUris, dialog, response, deletes,
          log, errors, unhandled, result, gate>>

----------------------------------------------------------------------------
(* Bounds of the model *)

\* the longest selection drawn from the whole resource tree
MaxSel == 2
\* the number of widgets the shell can hold
NumWidgets == 2
\* how far beyond the list threshold the long flat selections go
LongExtra == 1

(* The threshold of getConfirmMessage: more than ten files are counted, not listed *)
ListThreshold == 10

----------------------------------------------------------------------------
(* Resources *)

\* The resources of the model: directory 1, holding directory 1/1 with file
\* 1/1/1, and file 2/1 of directory 2.
Resources == { <<1>>, <<1, 1>>, <<1, 1, 1>>, <<2, 1>> }

\* The resources a widget can show: the files of the tree.
Files == { <<1, 1, 1>>, <<2, 1>> }

\* The workspace root of the deletion runs, and the sets of roots the gates
\* are asked under (a single-root and a multi-root workspace).
WorkspaceRoots == { <<1>> }
RootChoices == { {<<1>>}, {<<1>>, <<2>>} }

WidgetIds == 1 .. NumWidgets

ClosedWidget == [open |-> FALSE, uri |-> <<>>, saveable |-> FALSE, dirty |-> FALSE]

\* An open widget: saveable or not, and a dirty widget is a saveable one.
OpenWidgets ==
    { [open |-> TRUE, uri |-> u, saveable |-> k[1], dirty |-> k[2]] :
        u \in Files, k \in { <<FALSE, FALSE>>, <<TRUE, FALSE>>, <<TRUE, TRUE>> } }

RECURSIVE SeqsOfLen(_, _)
SeqsOfLen(S, n) ==
    IF n = 0 THEN { <<>> }
    ELSE { Append(s, x) : s \in SeqsOfLen(S, n - 1), x \in S }

SeqsUpTo(S, n) == UNION { SeqsOfLen(S, k) : k \in 0 .. n }

\* The selections handed to the handler: every sequence of up to MaxSel resources.
Selections == SeqsUpTo(Resources, MaxSel)

\* n files side by side in directory 2: 2/1, 2/2, ..., 2/n
Flat(n) == [i \in 1 .. n |-> <<2, i>>]

\* Long selections around the list threshold, plain, with a duplicate, with a
\* nested path and under their common parent.
LongSelections ==
    UNION { { Flat(n),
              Append(Flat(n), <<2, 1>>),
              Append(Flat(n), <<2, 1, 1>>),
              <<<<2>>>> \o Flat(n),
              <<<<1, 1>>>> \o Flat(n) } :
            n \in (ListThreshold - 2) .. (ListThreshold + LongExtra) }

MsgSelections == Selections \cup LongSelections

\* The selections the gates are asked about: directory 2 may be selected too
GateSelections == SeqsUpTo(Resources \cup { <<2>> }, MaxSel)

----------------------------------------------------------------------------
(* URI *)

\* uri.path.base: the last segment of the path
base(uri) == uri[Len(uri)]

\* uri.toString(): the segments, each behind a separator (0)
RECURSIVE toString(_)
toString(uri) ==
    IF uri = <<>> THEN <<>> ELSE <<0, Head(uri)>> \o toString(Tail(uri))

\* uri.isEqualOrParent(other): uri is other or an ancestor of other
isEqualOrParent(uri, other) ==
    /\ Len(uri) <= Len(other)
    /\ SubSeq(other, 1, Len(uri)) = uri

\* A faulty variant of getDistinctParents: only the duplicates are dropped.
getDistinctParentsKeepNested(us) ==
    LET keep(i) == \A j \in 1 .. (i - 1) : us[j] # us[i]
        RECURSIVE pick(_)
        pick(i) ==
            IF i > Len(us) THEN <<>>
            ELSE (IF keep(i) THEN <<us[i]>> ELSE <<>>) \o pick(i + 1)
    IN pick(1)

\* URI.getDistinctParents(uris): the uris that have no proper ancestor in the
\* selection, each once, in selection order.
getDistinctParents(us) ==
    LET keep(i) ==
            /\ \A j \in 1 .. Len(us) :
                   us[j] # us[i] => ~isEqualOrParent(us[j], us[i])
            /\ \A j \in 1 .. (i - 1) : us[j] # us[i]
        RECURSIVE pick(_)
        pick(i) ==
            IF i > Len(us) THEN <<>>
            ELSE (IF keep(i) THEN <<us[i]>> ELSE <<>>) \o pick(i + 1)
    IN pick(1)

----------------------------------------------------------------------------
(* Workspace utilities and widget queries *)

\* workspaceUtils.containsRootDirectory(uris): some uri is a workspace root
containsRootDirectory(us, rs) == \E i \in 1 .. Len(us) : us[i] \in rs

\* this.shell.widgets: the ids of the open widgets, in shell order
RECURSIVE widgetsFrom(_, _)
widgetsFrom(i, ws) ==
    IF i > NumWidgets THEN <<>>
    ELSE (IF ws[i].open THEN <<i>> ELSE <<>>) \o widgetsFrom(i + 1, ws)

shellWidgets(ws) == widgetsFrom(1, ws)

\* NavigatableWidget.getAffected(widgets, uris): the widgets among ids whose
\* resource is one of the uris or below one of them
getAffected(ids, ws, us) ==
    SelectSeq(ids, LAMBDA w :
        \E i \in 1 .. Len(us) : isEqualOrParent(us[i], ws[w].uri))

\* SaveableWidget.is(widget)
isSaveable(widget) == widget.saveable

\* SaveableWidget.getDirty(widgets): the saveable widgets that are dirty
getDirtyWidgets(ids, ws) ==
    SelectSeq(ids, LAMBDA w : isSaveable(ws[w]) /\ ws[w].dirty)

----------------------------------------------------------------------------
(* WorkspaceDeleteHandler: the gates and the confirmation message *)

\* A faulty variant of isVisible: the empty selection passes the gate.
isVisibleNoLength(us, rs) == ~containsRootDirectory(us, rs)

\* isVisible(uris)
isVisible(us, rs) == Len(us) # 0 /\ ~containsRootDirectory(us, rs)

\* isEnabled(uris)
isEnabled(us, rs) == Len(us) # 0 /\ ~containsRootDirectory(us, rs)

\* getDirty(uris): the resources of the dirty widgets affected by uris, one
\* per string form (the keys of the Map), in the order they were first set
getDirty(us, ws) ==
    LET affected == getAffected(getDirtyWidgets(shellWidgets(ws), ws), ws, us)
        RECURSIVE values(_, _)
        values(i, keys) ==
            IF i > Len(affected) THEN <<>>
            ELSE LET resourceUri == ws[affected[i]].uri
                 IN IF toString(resourceUri) \in keys
                    THEN values(i + 1, keys)
                    ELSE <<resourceUri>>
                             \o values(i + 1, keys \cup {toString(resourceUri)})
    IN values(1, {})

\* The messages getConfirmMessage can build
Message(kind, name, count, items) ==
    [kind |-> kind, name |-> name, count |-> count, items |-> items]

\* "Do you really want to delete <name> with unsaved changes?"
DirtyOne(name) == Message("dirtyOne", name, 1, <<>>)
\* "Do you really want to delete <count> files with unsaved changes?"
DirtyMany(count) == Message("dirtyMany", 0, count, <<>>)
\* "Do you really want to delete <name>?"
Single(name) == Message("single", name, 1, <<>>)
\* "Do you really want to delete all the <count> selected files?"
AllSelected(count) == Message("allSelected", 0, count, <<>>)
\* "Do you really want to delete the following files?" and the list of names
Following(items) == Message("following", 0, Len(items), items)

\* A faulty variant of getConfirmMessage: ten files are already counted, not listed.
getConfirmMessageFromTen(us, ws) ==
    LET dirty == getDirty(us, ws)
    IN IF Len(dirty) # 0
       THEN IF Len(dirty) = 1 THEN DirtyOne(base(dirty[1]))
            ELSE DirtyMany(Len(dirty))
       ELSE IF Len(us) = 1 THEN Single(base(us[1]))
       ELSE IF Len(us) >= ListThreshold THEN AllSelected(Len(us))
       ELSE Following([i \in 1 .. Len(us) |-> base(us[i])])

\* getConfirmMessage(uris)
getConfirmMessage(us, ws) ==
    LET dirty == getDirty(us, ws)
    IN IF Len(dirty) # 0
       THEN IF Len(dirty) = 1 THEN DirtyOne(base(dirty[1]))
            ELSE DirtyMany(Len(dirty))
       ELSE IF Len(us) = 1 THEN Single(base(us[1]))
       ELSE IF Len(us) > ListThreshold THEN AllSelected(Len(us))
       ELSE Following([i \in 1 .. Len(us) |-> base(us[i])])

NoDialog == [title |-> "none", msg |-> Message("none", 0, 0, <<>>)]

\* confirm(uris): the dialog it opens
confirm(us, ws) ==
    [title |-> IF Len(us) = 1 THEN "Delete File" ELSE "Delete Files",
     msg   |-> getConfirmMessage(us, ws)]

----------------------------------------------------------------------------
(* WorkspaceDeleteHandler: the deletion *)

\* A call on a widget or on the file system, as the log records it
CloseCall(op, w, widget, threw) ==
    [op |-> op, widget |-> w, uri |-> widget.uri, saveable |-> widget.saveable,
     dirty |-> widget.dirty, threw |-> threw]
DeleteCall(arg) ==
    [op |-> "delete", widget |-> 0, uri |-> arg, saveable |-> FALSE,
     dirty |-> FALSE, threw |-> FALSE]

\* A faulty variant of closeCall: a saveable widget is closed by the plain close.
closeCallPlain(widget) == "close"

\* closeWithoutSaving, lines 178-182: the close a widget gets
closeCall(widget) ==
    IF isSaveable(widget) THEN "closeWithoutSaving" ELSE "close"

\* closeWithoutSaving(uri): st holds widgets, log, unhandled and throwing, the
\* widgets whose close throws.  The loop ends at the first close that
\* throws, and the promise of the async function is then rejected.
closeWithoutSaving(uri, st) ==
    LET affected == getAffected(shellWidgets(st.widgets), st.widgets, <<uri>>)
        RECURSIVE loop(_, _)
        loop(i, s) ==
            IF i > Len(affected) THEN s
            ELSE LET w == affected[i]
                     widget == s.widgets[w]
                 IN IF w \in s.throwing
                    THEN [s EXCEPT
                            !.log = Append(@, CloseCall(closeCall(widget), w, widget, TRUE)),
                            !.unhandled = @ \cup {uri}]
                    ELSE loop(i + 1,
                          [s EXCEPT
                            !.log = Append(@, CloseCall(closeCall(widget), w, widget, FALSE)),
                            !.widgets = [@ EXCEPT ![w] = ClosedWidget]])
    IN loop(1, st)

\* One delete() call: the request on the file system and the call's promise
Pending == [fs |-> "pending", promise |-> "pending"]

\* A faulty variant of delete: the file system is asked before the widgets are closed.
deleteThenClose(uri, st) ==
    LET asked == [st EXCEPT
                    !.log = Append(@, DeleteCall(toString(uri))),
                    !.deletes = Append(@, Pending)]
    IN closeWithoutSaving(uri, asked)

\* A faulty variant of delete: the closing is awaited inside the try block.
deleteAwaitingClose(uri, st) ==
    LET closed == closeWithoutSaving(uri, st)
    IN IF uri \in closed.unhandled
       THEN [closed EXCEPT
                !.unhandled = @ \ {uri},
                !.errors = @ + 1,
                !.deletes = Append(@, [fs |-> "none", promise |-> "fulfilled"])]
       ELSE [closed EXCEPT
                !.log = Append(@, DeleteCall(toString(uri))),
                !.deletes = Append(@, Pending)]

\* A faulty variant of delete: a second request follows the first.
deleteTwice(uri, st) ==
    LET closed == closeWithoutSaving(uri, st)
    IN [closed EXCEPT
            !.log = @ \o <<DeleteCall(toString(uri)), DeleteCall(toString(uri))>>,
            !.deletes = Append(@, Pending)]

\* delete(uri), up to its await: closeWithoutSaving is started and not
\* awaited, then the file system is asked to delete the uri's string form
delete(uri, st) ==
    LET closed == closeWithoutSaving(uri, st)
    IN [closed EXCEPT
            !.log = Append(@, DeleteCall(toString(uri))),
            !.deletes = Append(@, Pending)]

\* A faulty variant of deleteSettled: no catch, a failed request rejects the promise.
deleteSettledNoCatch(ok) ==
    [fs |-> IF ok THEN "ok" ELSE "failed",
     promise |-> IF ok THEN "fulfilled" ELSE "rejected",
     logged |-> 0]

\* delete(uri), from its await on: a failed request is caught and logged,
\* and the promise of delete() is fulfilled either way
deleteSettled(ok) ==
    [fs |-> IF ok THEN "ok" ELSE "failed",
     promise |-> "fulfilled",
     logged |-> IF ok THEN 0 ELSE 1]

\* distinctUris.map(uri => this.delete(uri)): the calls, one after the other
RECURSIVE mapDelete(_, _)
mapDelete(us, st) ==
    IF us = <<>> THEN st ELSE mapDelete(Tail(us), delete(Head(us), st))

\* Promise.all(promises): rejected with the first rejection, fulfilled once
\* every promise is
promiseAll(ps) ==
    IF \E i \in 1 .. Len(ps) : ps[i].promise = "rejected" THEN "rejected"
    ELSE IF \A i \in 1 .. Len(ps) : ps[i].promise = "fulfilled" THEN "fulfilled"
    ELSE "pending"

----------------------------------------------------------------------------
(* The state machine *)

NoGate == [handler |-> "none", uris |-> <<>>, returned |-> FALSE]

\* The handler after construction: nothing runs, the shell shows some widgets
Constructed ==
    /\ widgets \in [WidgetIds -> OpenWidgets \cup {ClosedWidget}]
    /\ pc = "idle"
    /\ uris = <<>>
    /\ distinctUris = <<>>
    /\ dialog = NoDialog
    /\ response = "none"
    /\ deletes = <<>>
    /\ log = <<>>
    /\ errors = 0
    /\ unhandled = {}
    /\ result = "none"
    /\ gate = NoGate

Init == roots = WorkspaceRoots /\ Constructed

\* The gates read no widget: they are asked with an empty shell
InitGate ==
    /\ roots \in RootChoices
    /\ widgets = [w \in WidgetIds |-> ClosedWidget]
    /\ pc = "idle"
    /\ uris = <<>>
    /\ distinctUris = <<>>
    /\ dialog = NoDialog
    /\ response = "none"
    /\ deletes = <<>>
    /\ log = <<>>
    /\ errors = 0
    /\ unhandled = {}
    /\ result = "none"
    /\ gate = NoGate

\* isVisible(uris) is called
IsVisible(sel) ==
    /\ gate' = [handler |-> "isVisible", uris |-> sel, returned |-> isVisible(sel, roots)]
    /\ UNCHANGED <<roots, widgets, pc, uris, distinctUris, dialog, response,
                   deletes, log, errors, unhandled, result>>

\* isEnabled(uris) is called
IsEnabled(sel) ==
    /\ gate' = [handler |-> "isEnabled", uris |-> sel, returned |-> isEnabled(sel, roots)]
    /\ UNCHANGED <<roots, widgets, pc, uris, distinctUris, dialog, response,
                   deletes, log, errors, unhandled, result>>

\* execute(uris), lines 93-94, up to the await of confirm()
Execute(sel) ==
    /\ pc = "idle"
    /\ pc' = "confirm"
    /\ uris' = sel
    /\ distinctUris' = getDistinctParents(sel)
    /\ dialog' = confirm(getDistinctParents(sel), widgets)
    /\ response' = "none"
    /\ deletes' = <<>>
    /\ log' = <<>>
    /\ errors' = 0
    /\ unhandled' = {}
    /\ result' = "none"
    /\ UNCHANGED <<roots, widgets, gate>>

\* A faulty variant of confirmed: only an explicit refusal stops the deletion.
confirmedUnlessFalse(r) == r # "false"

\* execute(uris), line 94: the truthiness of what confirm() resolved to
confirmed(r) == r = "true"

\* How execute() settles with the promise of Promise.all
settled(all) ==
    IF all = "fulfilled" THEN "resolved"
    ELSE IF all = "rejected" THEN "rejected" ELSE "none"

\* execute(uris), lines 94-96, from the dialog's answer on.  throwing is the
\* set of widgets whose close throws.
Respond(r, throwing) ==
    /\ pc = "confirm"
    /\ response' = r
    /\ IF confirmed(r)
       THEN LET st == mapDelete(distinctUris,
                        [widgets |-> widgets, log |-> log, deletes |-> deletes,
                         errors |-> errors, unhandled |-> unhandled,
                         throwing |-> throwing])
                all == promiseAll(st.deletes)
            IN /\ widgets' = st.widgets
               /\ log' = st.log
               /\ deletes' = st.deletes
               /\ errors' = st.errors
               /\ unhandled' = st.unhandled
               /\ pc' = IF all = "pending" THEN "deleting" ELSE "done"
               /\ result' = settled(all)
       ELSE /\ pc' = "done"
            /\ result' = "resolved"
            /\ UNCHANGED <<widgets, log, deletes, errors, unhandled>>
    /\ UNCHANGED <<roots, uris, distinctUris, dialog, gate>>

\* The dialog answers; no close throws
DialogResponds == \E r \in {"true", "false", "undefined"} : Respond(r, {})

\* The dialog answers, and the close of some widgets throws
DialogRespondsCloseThrows ==
    \E r \in {"true", "false", "undefined"}, throwing \in SUBSET WidgetIds :
        Respond(r, throwing)

\* delete(uri), lines 165-168, from the await on: request i settles
FsDeleteSettles(i, ok) ==
    /\ i \in 1 .. Len(deletes)
    /\ deletes[i].fs = "pending"
    /\ LET out == deleteSettled(ok)
           ds == [deletes EXCEPT ![i] = [fs |-> out.fs, promise |-> out.promise]]
           all == promiseAll(ds)
       IN /\ deletes' = ds
          /\ errors' = errors + out.logged
          /\ IF pc = "deleting" /\ all # "pending"
             THEN pc' = "done" /\ result' = settled(all)
             ELSE UNCHANGED <<pc, result>>
    /\ UNCHANGED <<roots, widgets, uris, distinctUris, dialog, response, log,
                   unhandled, gate>>

\* The caller has seen execute() settle and every request has settled: the
\* command can be run again
Finish ==
    /\ pc = "done"
    /\ \A i \in 1 .. Len(deletes) : deletes[i].fs # "pending"
    /\ pc' = "idle"
    /\ uris' = <<>>
    /\ distinctUris' = <<>>
    /\ dialog' = NoDialog
    /\ response' = "none"
    /\ deletes' = <<>>
    /\ log' = <<>>
    /\ errors' = 0
    /\ unhandled' = {}
    /\ result' = "none"
    /\ UNCHANGED <<roots, widgets, gate>>

FsDeleteSucceeds == \E i \in 1 .. Len(deletes) : FsDeleteSettles(i, TRUE)
FsDeleteFails == \E i \in 1 .. Len(deletes) : FsDeleteSettles(i, FALSE)

ExecuteSelection == \E sel \in Selections : Execute(sel)
ExecuteLongSelection == \E sel \in MsgSelections : Execute(sel)
VisibleGate == \E sel \in GateSelections : IsVisible(sel)
EnabledGate == \E sel \in GateSelections : IsEnabled(sel)

\* The handler and its collaborators; no close throws
Next ==
    \/ ExecuteSelection
    \/ DialogResponds
    \/ FsDeleteSucceeds
    \/ FsDeleteFails
    \/ Finish

Spec == Init /\ [][Next]_vars

\* The handler where the close of a widget may throw
NextCloseThrows ==
    \/ ExecuteSelection
    \/ DialogRespondsCloseThrows
    \/ FsDeleteSucceeds
    \/ FsDeleteFails
    \/ Finish

SpecCloseThrows == Init /\ [][NextCloseThrows]_vars

\* The two gates, applied to every selection
NextGate ==
    \/ VisibleGate
    \/ EnabledGate

SpecGate == InitGate /\ [][NextGate]_vars

\* The confirmation message, built for the short and the long selections
NextMessage == ExecuteLongSelection

SpecMessage == Init /\ [][NextMessage]_vars

----------------------------------------------------------------------------
(* The claims *)

\* The calls on the file system among the calls of the log
DeleteCalls == SelectSeq(log, LAMBDA e : e.op = "delete")

\* How many times the file system was asked to delete the resource u
TimesDeleted(u) ==
    Cardinality({ i \in 1 .. Len(log) :
                    log[i].op = "delete" /\ log[i].uri = toString(u) })

\* The members of a selection
Members(sel) == { sel[i] : i \in 1 .. Len(sel) }

\* The distinct-parents reduction of a selection, as a set: the members
\* that are no descendant of another member
Reduction(sel) ==
    { u \in Members(sel) :
        \A v \in Members(sel) : v # u => ~isEqualOrParent(v, u) }

\* Where a resource first stands in a selection
FirstAt(sel, u) ==
    CHOOSE i \in 1 .. Len(sel) :
        sel[i] = u /\ \A j \in 1 .. (i - 1) : sel[j] # u

\* r lists the distinct-parents reduction of sel, each member once, in
\* selection order
IsReductionOf(r, sel) ==
    /\ Members(r) = Reduction(sel)
    /\ \A i, j \in 1 .. Len(r) : i < j => FirstAt(sel, r[i]) < FirstAt(sel, r[j])

AllSettled == \A i \in 1 .. Len(deletes) : deletes[i].fs # "pending"

\* C1: while the dialog is open, and when it answered anything but a
\* confirmation (false, or undefined for a dismissal), no widget was closed,
\* the file system was not asked to delete anything, nothing was logged as
\* an error and execute resolved; a close or a delete is only ever seen
\* after a confirming answer.
ClaimC1 ==
    /\ response \in {"false", "undefined"} =>
           /\ log = <<>>
           /\ deletes = <<>>
           /\ errors = 0
           /\ pc = "done"
           /\ result = "resolved"
    /\ (log # <<>> \/ deletes # <<>>) => response = "true"

WitnessC1 ==
    /\ response = "undefined"
    /\ pc = "done"
    /\ Len(distinctUris) = 2
    /\ \E w \in WidgetIds :
           /\ widgets[w].open
           /\ widgets[w].dirty
           /\ isEqualOrParent(distinctUris[1], widgets[w].uri)

\* C2: after a confirmation the file system was asked exactly once for each
\* member of the distinct-parents reduction of the selection and for
\* nothing else, whichever requests failed; execute never rejects, and it
\* has resolved once every request has settled.
ClaimC2 ==
    response = "true" =>
        /\ \A u \in Reduction(uris) : TimesDeleted(u) = 1
        /\ \A i \in 1 .. Len(log) :
               log[i].op = "delete" =>
                   \E u \in Reduction(uris) : log[i].uri = toString(u)
        /\ Len(deletes) = Cardinality(Reduction(uris))
        /\ result # "rejected"
        /\ AllSettled => pc = "done" /\ result = "resolved"

WitnessC2 ==
    /\ response = "true"
    /\ Len(uris) = 2
    /\ Len(deletes) = 2
    /\ deletes[1].fs = "failed"
    /\ deletes[2].fs = "ok"
    /\ result = "resolved"

\* C3: the file system is never asked to delete a workspace root.
ClaimC3 ==
    \A i \in 1 .. Len(log) :
        log[i].op = "delete" => \A r \in roots : log[i].uri # toString(r)

\* C4: a gate returns true exactly for the non-empty selections without a
\* workspace root, and the visible and the enabled gate agree.
ClaimC4 ==
    gate.handler # "none" =>
        /\ gate.returned <=>
               (gate.uris # <<>> /\ \A i \in 1 .. Len(gate.uris) : gate.uris[i] \notin roots)
        /\ isVisible(gate.uris, roots) = isEnabled(gate.uris, roots)

WitnessC4 ==
    /\ gate.handler = "isVisible"
    /\ Len(gate.uris) = 2
    /\ gate.returned
    /\ Cardinality(roots) = 2

\* C5: execute with an empty selection opens no dialog, closes no widget
\* and asks the file system for nothing.
ClaimC5 ==
    (pc # "idle" /\ uris = <<>>) =>
        /\ dialog = NoDialog
        /\ log = <<>>

\* The resources of the dirty widgets that lie in or below a member of r
DirtyUnder(r) ==
    { widgets[w].uri : w \in { x \in WidgetIds :
        /\ widgets[x].open
        /\ widgets[x].saveable
        /\ widgets[x].dirty
        /\ \E i \in 1 .. Len(r) : isEqualOrParent(r[i], widgets[x].uri) } }

\* C6: the message of the dialog is decided by the reduced selection R and
\* the dirty resources D: with D non-empty the unsaved-changes warning
\* (naming the resource if it is the only one, the count otherwise); else
\* the name of the only member of R; else the count if R has more than ten
\* members; else the list of the names of R in selection order.
ClaimC6 ==
    pc = "confirm" =>
        LET R == distinctUris
            D == DirtyUnder(R)
        IN /\ IsReductionOf(R, uris)
           /\ dialog.msg =
                IF D # {}
                THEN IF Cardinality(D) = 1
                     THEN DirtyOne(base(CHOOSE d \in D : TRUE))
                     ELSE DirtyMany(Cardinality(D))
                ELSE IF Len(R) = 1 THEN Single(base(R[1]))
                ELSE IF Len(R) > 10 THEN AllSelected(Len(R))
                ELSE Following([i \in 1 .. Len(R) |-> base(R[i])])

WitnessC6 ==
    /\ pc = "confirm"
    /\ Len(uris) = 11
    /\ Len(distinctUris) = 10
    /\ dialog.msg.kind = "following"
    /\ \E w \in WidgetIds : widgets[w].open /\ widgets[w].dirty

\* C7: after a confirmation every deletion has been issued before execute
\* first suspends, the requests settle in any order, and execute is done
\* only when no request is pending.
ClaimC7 ==
    /\ response = "true" =>
           /\ Len(deletes) = Len(distinctUris)
           /\ Len(DeleteCalls) = Len(distinctUris)
    /\ (pc = "done" /\ response = "true") => AllSettled
    /\ pc = "deleting" => ~AllSettled /\ result = "none"

WitnessC7 ==
    /\ pc = "deleting"
    /\ Len(deletes) = 2
    /\ deletes[1].fs = "pending"
    /\ deletes[2].fs = "failed"

\* The widget w shows the resource u or one below it
Shows(ws, w, u) == ws[w].open /\ isEqualOrParent(u, ws[w].uri)

\* The step of C8: in the step that answers the dialog with a confirmation, every
\* widget that showed a resource in or below a deleted resource is closed
\* by a call that precedes the file system's delete of that resource, a
\* saveable widget by closeWithoutSaving and never by close, and the
\* widgets showing no deleted resource stay as they were.
StepC8 ==
    (pc = "confirm" /\ response' = "true") =>
        /\ \A j \in 1 .. Len(log') :
               log'[j].op = "delete" =>
                   \A u \in Members(distinctUris), w \in WidgetIds :
                       (log'[j].uri = toString(u) /\ Shows(widgets, w, u)) =>
                           /\ ~widgets'[w].open
                           /\ \E i \in 1 .. (j - 1) :
                                  /\ log'[i].widget = w
                                  /\ log'[i].op =
                                       IF widgets[w].saveable
                                       THEN "closeWithoutSaving" ELSE "close"
        /\ \A u \in Members(distinctUris) : TimesDeleted(u)' = 1
        /\ \A i \in 1 .. Len(log') :
               log'[i].saveable => log'[i].op # "close"
        /\ \A w \in WidgetIds :
               (\A u \in Members(distinctUris) : ~Shows(widgets, w, u)) =>
                   widgets'[w] = widgets[w]

ClaimC9 ==
    pc # "idle" =>
        /\ getDistinctParents(distinctUris) = distinctUris
        /\ \A i, j \in 1 .. Len(distinctUris) :
               i # j => ~isEqualOrParent(distinctUris[i], distinctUris[j])

WitnessC9 ==
    /\ pc = "confirm"
    /\ Len(uris) = 2
    /\ Len(distinctUris) = 1
    /\ uris[1] # uris[2]
    /\ distinctUris[1] = uris[2]

\* C10: when the close of a widget of a resource throws, the failure is
\* not logged by delete's catch, the file system is still asked to delete
\* that resource and every sibling, and execute resolves once the requests
\* have settled.
ClaimC10 ==
    (response = "true" /\ \E i \in 1 .. Len(log) : log[i].threw) =>
        /\ unhandled # {}
        /\ \A u \in Members(distinctUris) : TimesDeleted(u) = 1
        /\ errors = Cardinality({ i \in 1 .. Len(deletes) : deletes[i].fs = "failed" })
        /\ result # "rejected"
        /\ AllSettled => pc = "done" /\ result = "resolved"

WitnessC10 ==
    /\ response = "true"
    /\ \E i \in 1 .. Len(log) : log[i].threw /\ log[i].dirty
    /\ Len(distinctUris) = 2
    /\ pc = "done"
    /\ result = "resolved"
    /\ errors = 0

====
